---- MODULE Spec2Model ----
(***************************************************************************)
(* md2ppt: the segmentation pass of src/json2slide.py (process_json).      *)
(* A flat stream of block tokens is grouped into slides and placeholders,  *)
(* each slide's layout is inferred when the slide is finalized, and        *)
(* vacuous slides are pruned from the finished document.                   *)
(*                                                                         *)
(* Python dicts are records; a key that may be absent is tested with       *)
(* DOMAIN.  Python lists are sequences (1-based here, 0-based in the       *)
(* source: the cursors below keep the source's 0-based values).            *)
(***************************************************************************)
EXTENDS Integers, Sequences, FiniteSets, TLC

(***************************************************************************)
(* Bounds of the model.                                                    *)
(***************************************************************************)
MaxTokens == 3

(***************************************************************************)
(* Inline tokens, as the tokenizer (mistune) hands them over.              *)
(***************************************************************************)
txtA == [type |-> "text", raw |-> "A"]
txtB == [type |-> "text", raw |-> "B"]
txtX == [type |-> "text", raw |-> "x"]
txtEmpty == [type |-> "text", raw |-> ""]
strongA == [type |-> "strong", children |-> <<txtA>>]
emX == [type |-> "emphasis", children |-> <<txtX>>]
linkB == [type |-> "link", attrs |-> [url |-> <<"u">>], children |-> <<txtB>>]
imageA == [type |-> "image", attrs |-> [url |-> <<"a", "%20", "b">>], children |-> <<txtA>>]
imageNoAlt == [type |-> "image", attrs |-> [url |-> <<"c">>], children |-> <<txtEmpty>>]

(***************************************************************************)
(* Run Builder: paragraph(children) and its inner process_token.           *)
(* A style is the dict of the keys set so far; a key not yet set is FALSE  *)
(* (bold, italic, monospace) or <<>> (hyperlink).  URLs are sequences of   *)
(* lexemes so that percent-decoding is an operation on them.               *)
(***************************************************************************)
NoStyle == [bold |-> FALSE, italic |-> FALSE, monospace |-> FALSE, hyperlink |-> <<>>]

\* Faulty variant: a style node replaces the inherited style instead of adding to it.
new_style_overrides(token, current_style) ==
    IF token.type = "strong" THEN [NoStyle EXCEPT !.bold = TRUE]
    ELSE IF token.type = "emphasis" THEN [NoStyle EXCEPT !.italic = TRUE]
    ELSE IF token.type = "codespan" THEN [NoStyle EXCEPT !.monospace = TRUE]
    ELSE IF token.type = "link"
         THEN IF "attrs" \in DOMAIN token /\ "url" \in DOMAIN token.attrs
              THEN [NoStyle EXCEPT !.hyperlink = token.attrs.url]
              ELSE current_style
    ELSE current_style

new_style(token, current_style) ==
    IF token.type = "strong" THEN [current_style EXCEPT !.bold = TRUE]
    ELSE IF token.type = "emphasis" THEN [current_style EXCEPT !.italic = TRUE]
    ELSE IF token.type = "codespan" THEN [current_style EXCEPT !.monospace = TRUE]
    ELSE IF token.type = "link"
         THEN IF "attrs" \in DOMAIN token /\ "url" \in DOMAIN token.attrs
              THEN [current_style EXCEPT !.hyperlink = token.attrs.url]
              ELSE current_style
    ELSE current_style

RECURSIVE process_token(_, _), process_children(_, _)
process_token(token, current_style) ==
    LET style == new_style(token, current_style)
        own == IF "raw" \in DOMAIN token
               THEN <<[bold |-> style.bold, italic |-> style.italic,
                       monospace |-> style.monospace, hyperlink |-> style.hyperlink,
                       text |-> token.raw]>>
               ELSE <<>>
        below == IF "children" \in DOMAIN token
                 THEN process_children(token.children, style)
                 ELSE <<>>
    IN own \o below

process_children(children, style) ==
    IF Len(children) = 0 THEN <<>>
    ELSE process_token(Head(children), style) \o process_children(Tail(children), style)

paragraph(children) == process_children(children, NoStyle)

(***************************************************************************)
(* urllib.parse.unquote on a URL given as a sequence of lexemes: an        *)
(* escape "%20" decodes to " ", every other lexeme is kept.                *)
(***************************************************************************)
unquote(url) == [i \in DOMAIN url |-> IF url[i] = "%20" THEN " " ELSE url[i]]

(***************************************************************************)
(* process_list: iter_token returns a list, a dict or None in the source;  *)
(* here always a sequence (a dict is the one-element sequence, None the    *)
(* empty one), which is how every caller uses the result.  top_ordered is  *)
(* the default value of iter_token's ordered parameter, bound to           *)
(* process_list's argument.                                                *)
(***************************************************************************)
get_ordered(token) ==
    IF "attrs" \in DOMAIN token /\ "ordered" \in DOMAIN token.attrs
    THEN token.attrs.ordered ELSE FALSE

get_children(token) == IF "children" \in DOMAIN token THEN token.children ELSE <<>>

RECURSIVE iter_token(_, _, _, _), iter_list_children(_, _, _, _), iter_item_children(_, _, _, _)
\* Faulty variant: descending into a nested list keeps the depth.
iter_token_flat(token, depth, ordered, top_ordered) ==
    IF token.type = "list"
    THEN iter_list_children(get_children(token), depth, get_ordered(token), top_ordered)
    ELSE IF token.type = "list_item"
    THEN LET r == iter_item_children(get_children(token), depth, top_ordered,
                                     [runs |-> <<>>, extra_items |-> <<>>])
         IN (IF Len(r.runs) > 0
             THEN <<[type |-> "list_item", depth |-> depth, runs |-> r.runs,
                     ordered |-> ordered]>>
             ELSE <<>>) \o r.extra_items
    ELSE IF token.type = "block_text" \/ token.type = "paragraph"
    THEN <<[type |-> "list_item", depth |-> depth,
            runs |-> paragraph(get_children(token)), ordered |-> ordered]>>
    ELSE <<>>

iter_token(token, depth, ordered, top_ordered) ==
    IF token.type = "list"
    THEN iter_list_children(get_children(token), depth + 1, get_ordered(token), top_ordered)
    ELSE IF token.type = "list_item"
    THEN LET r == iter_item_children(get_children(token), depth, top_ordered,
                                     [runs |-> <<>>, extra_items |-> <<>>])
         IN (IF Len(r.runs) > 0
             THEN <<[type |-> "list_item", depth |-> depth, runs |-> r.runs,
                     ordered |-> ordered]>>
             ELSE <<>>) \o r.extra_items
    ELSE IF token.type = "block_text" \/ token.type = "paragraph"
    THEN <<[type |-> "list_item", depth |-> depth,
            runs |-> paragraph(get_children(token)), ordered |-> ordered]>>
    ELSE <<>>

iter_list_children(children, new_depth, ordered, top_ordered) ==
    IF Len(children) = 0 THEN <<>>
    ELSE iter_token(Head(children), new_depth, ordered, top_ordered)
         \o iter_list_children(Tail(children), new_depth, ordered, top_ordered)

iter_item_children(children, depth, top_ordered, acc) ==
    IF Len(children) = 0 THEN acc
    ELSE LET child == Head(children)
             acc2 == IF child.type = "block_text"
                     THEN [acc EXCEPT !.runs = paragraph(get_children(child))]
                     ELSE [acc EXCEPT !.extra_items =
                               @ \o iter_token(child, depth, top_ordered, top_ordered)]
         IN iter_item_children(Tail(children), depth, top_ordered, acc2)

process_list(list_token, ordered) ==
    [type |-> "list",
     children |-> iter_list_children(get_children(list_token), 0, ordered, ordered)]

(***************************************************************************)
(* process_table                                                           *)
(***************************************************************************)
process_cell(cell) ==
    [type |-> "cell",
     runs |-> paragraph(get_children(cell)),
     align |-> IF "attrs" \in DOMAIN cell /\ "align" \in DOMAIN cell.attrs
               THEN cell.attrs.align ELSE ""]

process_row(row) == [i \in DOMAIN get_children(row) |-> process_cell(get_children(row)[i])]

process_table(table) ==
    LET head_data == get_children(table.children[1])
        body_data == get_children(table.children[2])
    IN [type |-> "table",
        head |-> [i \in DOMAIN head_data |-> process_cell(head_data[i])],
        body |-> [i \in DOMAIN body_data |-> process_row(body_data[i])]]

(***************************************************************************)
(* Block tokens of the input stream (data['tokens']).                      *)
(***************************************************************************)
heading(level, children) ==
    [type |-> "heading", attrs |-> [level |-> level], children |-> children]

comment_block(key, value) == [type |-> "comment_block", key |-> key, value |-> value]

item(children) == [type |-> "list_item", children |-> children]

block_text(children) == [type |-> "block_text", children |-> children]

para(children) == [type |-> "paragraph", children |-> children]

list(ordered, children) ==
    [type |-> "list", attrs |-> [ordered |-> ordered], children |-> children]

table_cell(align, children) ==
    [type |-> "table_cell", attrs |-> [align |-> align], children |-> children]

nestedList ==
    list(FALSE, <<item(<<block_text(<<txtA>>), list(TRUE, <<item(<<block_text(<<txtB>>)>>)>>)>>),
                  item(<<block_text(<<strongA>>)>>)>>)

tableTok ==
    [type |-> "table",
     children |-> <<[type |-> "table_head", children |-> <<table_cell("left", <<txtA>>)>>],
                    [type |-> "table_body",
                     children |-> <<[type |-> "table_row",
                                     children |-> <<table_cell("left", <<txtB>>)>>]>>]>>]

HeadingTokens == {heading(1, <<txtA>>), heading(2, <<strongA, txtB>>), heading(3, <<txtX>>)}
ParagraphTokens == {para(<<txtX>>), para(<<txtEmpty>>), para(<<linkB>>), para(<<imageA>>),
                    para(<<imageNoAlt>>)}
\* The directive pattern of src/comment.py (value: .+) admits no empty value.
CommentTokens == {comment_block("layout", "title_only"), comment_block("layout", "blank"),
                  comment_block("note", "n")}
BlockQuoteTokens == {[type |-> "block_quote", children |-> <<para(<<emX>>)>>]}
ListTokens == {nestedList}
BlockCodeTokens == {[type |-> "block_code", attrs |-> [info |-> "py"], raw |-> "x"]}
TableTokens == {tableTok}
OtherTokens == {[type |-> "block_html", raw |-> "<br>"]}

(***************************************************************************)
(* State of process_json.                                                  *)
(***************************************************************************)
VARIABLES
    slides,               \* processed['slides']
    current_slide,        \* 0-based cursor
    current_placeholder,  \* 0-based cursor
    prev_token,           \* memo of the token add_token appended last
    pc,                   \* "loop" (215-298), "prune" (302-306), "done" (308), "error"
    pos,                  \* number of tokens the for loop has taken from the stream
    printed,              \* standard output: the tokens print(token) wrote (line 297)
    ended,                \* the for loop is exhausted (line 300 was reached)
    breaks,               \* history: heading 1-2 / thematic_break tokens taken
    finalize_calls,       \* history: calls of finalize_slide
    started,              \* history: how each slide was started
    passed,               \* history: the calls of add_token, in order
    directive,            \* history: per slide, the layout directives dispatched on it
    unpruned,             \* history: processed['slides'] as line 300 left it
    wildcards,            \* history: the wildcard_break tokens dispatched, in order
    call,                 \* a function of the program under study and its arguments
    ret,                  \* the values that function returned, in order
    shapes,               \* json2pptx.py line 122: the dicts of the slide's shapes
    shapes_no_title,      \* json2pptx.py line 120: the slide's shape objects
    grow_i,               \* json2pptx.py line 132: the grow loop's index
    grow_log,             \* history: what each iteration of the grow loop read and used
    prs,                  \* json2pptx.py line 86: prs.slides, the slides added so far
    conv,                 \* json2pptx.py lines 71-117: the locals of convert_json_to_pptx
    stack                 \* markdown_flatten_embed.py: the frames of flatten_markdown

\* The state of the other passes, which process_json never touches.
aside == <<call, ret, shapes, shapes_no_title, grow_i, grow_log, prs, conv, stack>>

vars == <<slides, current_slide, current_placeholder, prev_token, pc, pos, printed, ended,
          breaks, finalize_calls, started, passed, directive, unpruned, wildcards, aside>>

history == <<breaks, finalize_calls, started, passed, directive, unpruned, wildcards>>

EmptyDict == <<>>

NEW_SLIDE == [title |-> EmptyDict, layout |-> "", placeholders |-> <<(<<>>)>>, notes |-> <<>>]

(***************************************************************************)
(* determine_layout.  The subscripts [0][0] and [1][0] of lines 57-58      *)
(* raise IndexError on an empty placeholder.                               *)
(***************************************************************************)
count_placeholders(slide) ==
    Cardinality({i \in DOMAIN slide.placeholders : Len(slide.placeholders[i]) > 0})

determine_layout_raises(slide) ==
    /\ slide.layout = ""
    /\ count_placeholders(slide) = 2
    /\ \/ Len(slide.placeholders[1]) = 0
       \/ Len(slide.placeholders[2]) = 0

\* Faulty variant: counts every placeholder, empty ones included.
determine_layout_counts_all(slide) ==
    IF slide.layout # "" THEN slide.layout
    ELSE IF Len(slide.placeholders) = 0 THEN "section_header"
    ELSE IF Len(slide.placeholders) = 1 THEN "title_and_content"
    ELSE IF Len(slide.placeholders) = 2
         THEN IF /\ Len(slide.placeholders[1]) > 0 /\ Len(slide.placeholders[2]) > 0
                 /\ slide.placeholders[1][1].consume # "monopoly"
                 /\ slide.placeholders[2][1].consume # "monopoly"
              THEN "two_content" ELSE "content_with_caption"
    ELSE ""

\* Faulty variant: the case for two placeholders is missing.
determine_layout_no_case_2(slide) ==
    IF slide.layout # "" THEN slide.layout
    ELSE IF count_placeholders(slide) = 0 THEN "section_header"
    ELSE IF count_placeholders(slide) = 1 THEN "title_and_content"
    ELSE ""

\* Faulty variant: infers the layout even when a directive has set one.
determine_layout_ignores_directive(slide) ==
    IF count_placeholders(slide) = 0 THEN "section_header"
    ELSE IF count_placeholders(slide) = 1 THEN "title_and_content"
    ELSE IF count_placeholders(slide) = 2 THEN "content_with_caption"
    ELSE ""

determine_layout(slide) ==
    IF slide.layout # "" THEN slide.layout
    ELSE IF count_placeholders(slide) = 0 THEN "section_header"
    ELSE IF count_placeholders(slide) = 1 THEN "title_and_content"
    ELSE IF count_placeholders(slide) = 2
         THEN LET first == slide.placeholders[1][1].consume # "monopoly"
                  second == slide.placeholders[2][1].consume # "monopoly"
              IN IF first /\ second THEN "two_content" ELSE "content_with_caption"
    ELSE ""

(***************************************************************************)
(* The segmenter's cursor state as one value, and the helpers that map it. *)
(***************************************************************************)
Seg == [slides |-> slides, current_slide |-> current_slide,
        current_placeholder |-> current_placeholder, prev_token |-> prev_token]

\* Faulty variant: appends a fresh slide even when finalizing the document.
finalize_slide_always_appends(st, finalize_doc) ==
    LET resolved == [st.slides EXCEPT ![st.current_slide + 1].layout =
                         determine_layout(st.slides[st.current_slide + 1])]
    IN [st EXCEPT !.slides = Append(resolved, NEW_SLIDE),
                  !.current_slide = st.current_slide + 1,
                  !.current_placeholder = 0]

finalize_slide(st, finalize_doc) ==
    LET resolved == [st.slides EXCEPT ![st.current_slide + 1].layout =
                         determine_layout(st.slides[st.current_slide + 1])]
    IN [st EXCEPT !.slides = IF finalize_doc THEN resolved ELSE Append(resolved, NEW_SLIDE),
                  !.current_slide = st.current_slide + 1,
                  !.current_placeholder = 0]

\* Faulty variant: an empty current placeholder is reused, none is appended.
add_placeholder_reuses_empty(st) ==
    IF Len(st.slides[st.current_slide + 1].placeholders[st.current_placeholder + 1]) = 0
    THEN st
    ELSE [st EXCEPT !.slides[st.current_slide + 1].placeholders = Append(@, <<>>),
                    !.current_placeholder = st.current_placeholder + 1]

add_placeholder(st) ==
    [st EXCEPT !.slides[st.current_slide + 1].placeholders = Append(@, <<>>),
               !.current_placeholder = st.current_placeholder + 1]

is_shared(t) == "consume" \in DOMAIN t /\ t.consume = "shared"

\* Faulty variant: the memo of the last appended token is not consulted.
keeps_placeholder_ignores_prev(placeholder, prev, consume) ==
    Len(placeholder) = 0 \/ consume = "shared"

\* Faulty variant: the memo alone decides, also on an empty placeholder.
keeps_placeholder_trusts_memo(placeholder, prev, consume) ==
    is_shared(prev) /\ consume = "shared"

keeps_placeholder(placeholder, prev, consume) ==
    Len(placeholder) = 0 \/ (is_shared(prev) /\ consume = "shared")

\* Faulty variant: the token is put in front of the placeholder's tokens.
add_token_in_front(st, token, consume) ==
    LET placeholder == st.slides[st.current_slide + 1].placeholders[st.current_placeholder + 1]
        st1 == IF keeps_placeholder(placeholder, st.prev_token, consume)
               THEN st ELSE add_placeholder(st)
    IN [st1 EXCEPT !.slides[st1.current_slide + 1].placeholders[st1.current_placeholder + 1] =
                       <<[consume |-> consume] @@ token>> \o @,
                   !.prev_token = token @@ [consume |-> consume]]

add_token(st, token, consume) ==
    LET placeholder == st.slides[st.current_slide + 1].placeholders[st.current_placeholder + 1]
        st1 == IF keeps_placeholder(placeholder, st.prev_token, consume)
               THEN st ELSE add_placeholder(st)
    IN [st1 EXCEPT !.slides[st1.current_slide + 1].placeholders[st1.current_placeholder + 1] =
                       Append(@, [consume |-> consume] @@ token),
                   !.prev_token = token @@ [consume |-> consume]]

set_title(st, title) == [st EXCEPT !.slides[st.current_slide + 1].title = title]

Install(st) ==
    /\ slides' = st.slides
    /\ current_slide' = st.current_slide
    /\ current_placeholder' = st.current_placeholder
    /\ prev_token' = st.prev_token

Raise ==
    /\ pc' = "error"
    /\ UNCHANGED <<slides, current_slide, current_placeholder, prev_token>>

Take == pc = "loop" /\ pos < MaxTokens /\ pos' = pos + 1 /\ UNCHANGED <<ended, aside>>

Quiet == UNCHANGED printed

AddToken(token, consume) ==
    /\ Install(add_token(Seg, token, consume))
    /\ passed' = Append(passed, [after |-> breaks, token |-> token, consume |-> consume])
    /\ UNCHANGED <<pc, breaks, finalize_calls, started, directive, unpruned, wildcards>>

NoEffect ==
    UNCHANGED <<slides, current_slide, current_placeholder, prev_token, pc, history>>

(***************************************************************************)
(* finalize_slide() followed by the assignment of the new slide's title    *)
(* (lines 223-226 and 238-239); the call raises when determine_layout does.*)
(***************************************************************************)
heading_title(token) == [runs |-> paragraph(token.children)]

\* Faulty variant: reads the title of the new slide instead of the one before it.
previous_title_own(st) == st.slides[st.current_slide + 1].title

previous_title(st) == st.slides[st.current_slide].title

new_title(st, by) ==
    IF by.by = "heading" THEN heading_title(by.token) ELSE previous_title(st)

StartSlide(by) ==
    /\ breaks' = breaks + 1
    /\ finalize_calls' = finalize_calls + 1
    /\ UNCHANGED <<passed, unpruned, wildcards>>
    /\ IF determine_layout_raises(slides[current_slide + 1])
       THEN Raise /\ UNCHANGED <<started, directive>>
       ELSE LET st == finalize_slide(Seg, FALSE)
            IN /\ Install(set_title(st, new_title(st, by)))
               /\ started' = Append(started, by)
               /\ directive' = Append(directive, <<>>)
               /\ UNCHANGED pc

Heading ==
    \E token \in HeadingTokens :
        /\ Take /\ Quiet
        /\ LET level == token.attrs.level
           IN IF level \in {1, 2}
              THEN StartSlide([by |-> "heading", token |-> token])
              ELSE IF level \in {3, 4, 5, 6}
              THEN AddToken([type |-> "heading", level |-> level,
                             runs |-> paragraph(token.children)], "shared")
              ELSE NoEffect

ThematicBreak ==
    /\ Take /\ Quiet
    /\ StartSlide([by |-> "thematic_break"])

WildcardBreak ==
    /\ Take /\ Quiet
    /\ Install(add_placeholder(Seg))
    /\ wildcards' = Append(wildcards, [slide |-> current_slide, passed |-> Len(passed),
                                       placeholders |-> Len(slides[current_slide + 1].placeholders)])
    /\ UNCHANGED <<pc, breaks, finalize_calls, started, passed, directive, unpruned>>

BlockQuote ==
    \E token \in BlockQuoteTokens :
        /\ Take /\ Quiet
        /\ AddToken([type |-> "block_quote",
                     runs |-> paragraph(token.children[1].children)], "shared")

(***************************************************************************)
(* The paragraph case looks at the paragraph's first child only.           *)
(***************************************************************************)
image_token(child) ==
    LET url == unquote(child.attrs.url)
        alt == child.children[1].raw
    IN IF alt = "" THEN [type |-> "image", url |-> url]
       ELSE [type |-> "image", url |-> url, alt |-> alt]

\* Lines 248-272: the match on the first child; no case matches another type.
ParagraphCase(token) ==
    LET child == token.children[1]
    IN IF child.type = "text"
       THEN IF child.raw # ""
            THEN AddToken([type |-> "paragraph",
                           runs |-> paragraph(token.children)], "shared")
            ELSE NoEffect
       ELSE IF child.type = "link"
       THEN AddToken([type |-> "paragraph",
                      runs |-> paragraph(token.children)], "shared")
       ELSE IF child.type = "image"
       THEN AddToken(image_token(child), "monopoly")
       ELSE NoEffect

Paragraph ==
    \E token \in ParagraphTokens :
        /\ Take /\ Quiet
        /\ ParagraphCase(token)

List ==
    \E token \in ListTokens :
        /\ Take /\ Quiet
        /\ AddToken(process_list(token, get_ordered(token)), "shared")

BlockCode ==
    \E token \in BlockCodeTokens :
        /\ Take /\ Quiet
        /\ AddToken([type |-> "code",
                     lang |-> IF "attrs" \in DOMAIN token /\ "info" \in DOMAIN token.attrs
                              THEN token.attrs.info ELSE "",
                     raw |-> token.raw], "shared")

CommentBlock ==
    \E token \in CommentTokens :
        /\ Take /\ Quiet
        /\ UNCHANGED <<current_slide, current_placeholder, prev_token, pc>>
        /\ UNCHANGED <<breaks, finalize_calls, started, passed, unpruned, wildcards>>
        /\ IF token.key = "layout"
           THEN /\ slides' = [slides EXCEPT ![current_slide + 1].layout = token.value]
                /\ directive' = [directive EXCEPT ![current_slide + 1] = Append(@, token.value)]
           ELSE IF token.key = "note"
           THEN /\ slides' = [slides EXCEPT ![current_slide + 1].notes = Append(@, token.value)]
                /\ UNCHANGED directive
           ELSE UNCHANGED <<slides, directive>>

BlankLine ==
    /\ Take /\ Quiet
    /\ NoEffect

Table ==
    \E token \in TableTokens :
        /\ Take /\ Quiet
        /\ AddToken(process_table(token), "monopoly")

Unrecognized ==
    \E token \in OtherTokens :
        /\ Take
        /\ printed' = Append(printed, token)
        /\ NoEffect

(***************************************************************************)
(* Line 300: finalize_slide(True) once the stream is exhausted.  The       *)
(* stream may end after any number of tokens.                              *)
(***************************************************************************)
EndOfStream ==
    /\ pc = "loop"
    /\ ended' = TRUE
    /\ finalize_calls' = finalize_calls + 1
    /\ UNCHANGED <<pos, printed, breaks, started, passed, directive, wildcards, aside>>
    /\ IF determine_layout_raises(slides[current_slide + 1])
       THEN Raise /\ UNCHANGED unpruned
       ELSE LET st == finalize_slide(Seg, TRUE)
            IN /\ Install(st)
               /\ unpruned' = st.slides
               /\ pc' = "prune"

(***************************************************************************)
(* Lines 302-306: a for loop over processed['slides'] that removes from    *)
(* the list it iterates.  The list iterator keeps an index i, yields       *)
(* list[i] while i < len(list) and then advances; list.remove deletes the  *)
(* first element equal to its argument.                                    *)
(***************************************************************************)
remove(sl, x) ==
    LET j == CHOOSE k \in DOMAIN sl : sl[k] = x /\ \A m \in 1..(k - 1) : sl[m] # x
    IN [k \in 1..(Len(sl) - 1) |-> IF k < j THEN sl[k] ELSE sl[k + 1]]

title_empty(slide) == DOMAIN slide.title = {}

placeholder_empty(slide) == Len(slide.placeholders[1]) = 0

RECURSIVE prune(_, _)
prune(sl, i) ==
    IF i >= Len(sl) THEN sl
    ELSE LET slide == sl[i + 1]
         IN IF title_empty(slide) /\ placeholder_empty(slide)
            THEN prune(remove(sl, slide), i + 1)
            ELSE prune(sl, i + 1)

Prune ==
    /\ pc = "prune"
    /\ slides' = prune(slides, 0)
    /\ pc' = "done"
    /\ UNCHANGED <<current_slide, current_placeholder, prev_token, pos, printed, ended, history,
                   aside>>

\* Nothing is under study besides process_json.
AsideIdle ==
    /\ call = EmptyDict
    /\ ret = <<>>
    /\ shapes = <<>>
    /\ shapes_no_title = <<>>
    /\ grow_i = 0
    /\ grow_log = <<>>
    /\ prs = <<>>
    /\ conv = EmptyDict
    /\ stack = <<>>

Init ==
    /\ slides = <<NEW_SLIDE>>
    /\ current_slide = 0
    /\ current_placeholder = 0
    /\ prev_token = EmptyDict
    /\ pc = "loop"
    /\ pos = 0
    /\ printed = <<>>
    /\ ended = FALSE
    /\ breaks = 0
    /\ finalize_calls = 0
    /\ started = <<[by |-> "init"]>>
    /\ passed = <<>>
    /\ directive = <<(<<>>)>>
    /\ unpruned = <<>>
    /\ wildcards = <<>>
    /\ AsideIdle

Next ==
    \/ Heading
    \/ ThematicBreak
    \/ WildcardBreak
    \/ BlockQuote
    \/ Paragraph
    \/ List
    \/ BlockCode
    \/ CommentBlock
    \/ BlankLine
    \/ Table
    \/ Unrecognized
    \/ EndOfStream
    \/ Prune

Spec == Init /\ [][Next]_vars

(***************************************************************************)
(* Properties.                                                             *)
(***************************************************************************)
\* The document before pruning: the slides as the pass builds them.
doc == IF pc = "done" THEN unpruned ELSE slides

\* Slides for which finalize_slide has run to its end (1-based indices).
Finalized == 1..current_slide

NonEmpty(slide) == {p \in DOMAIN slide.placeholders : Len(slide.placeholders[p]) > 0}

NoDirective(i) == directive[i] = <<>>

RECURSIVE Flatten(_)
Flatten(seqs) == IF Len(seqs) = 0 THEN <<>> ELSE Head(seqs) \o Flatten(Tail(seqs))

\* The content tokens handed to add_token between the i-th slide start and the next.
PassedTo(i) ==
    LET mine == SelectSeq(passed, LAMBDA e : e.after = i - 1)
    IN [k \in 1..Len(mine) |-> [consume |-> mine[k].consume] @@ mine[k].token]

AllDocs == {slides, unpruned}

\* C1: in every state of the pass and in the final document a monopoly token
\* is the only token of its placeholder; in a placeholder holding more than
\* one token every token (hence every predecessor) is shared.
C1_MonopolyAlone ==
    \A d \in AllDocs : \A i \in DOMAIN d : \A p \in DOMAIN d[i].placeholders :
        LET ph == d[i].placeholders[p]
        IN /\ \A k \in DOMAIN ph : ph[k].consume = "monopoly" => Len(ph) = 1
           /\ Len(ph) > 1 => \A k \in DOMAIN ph : ph[k].consume = "shared"
           /\ \A k \in DOMAIN ph : k > 1 => ph[k - 1].consume = "shared"

\* C1 witness: a finished document in which a shared token was dispatched right
\* after a monopoly token and sits in the placeholder after it.
C1_Witness ==
    /\ pc = "done"
    /\ \E i \in DOMAIN slides : \E p \in DOMAIN slides[i].placeholders :
        /\ p + 1 \in DOMAIN slides[i].placeholders
        /\ Len(slides[i].placeholders[p]) = 1
        /\ slides[i].placeholders[p][1].consume = "monopoly"
        /\ Len(slides[i].placeholders[p + 1]) > 1

C3_TitlesAndOwnership ==
    /\ Len(started) = Len(doc)
    /\ \A i \in DOMAIN doc :
        /\ started[i].by = "init" => i = 1 /\ doc[i].title = EmptyDict
        /\ started[i].by = "heading" =>
               doc[i].title = [runs |-> paragraph(started[i].token.children)]
        /\ started[i].by = "thematic_break" => i > 1 /\ doc[i].title = doc[i - 1].title
        /\ Flatten(doc[i].placeholders) = PassedTo(i)

\* C3 witness: a heading slide with a bold run in its title, continued by a
\* thematic_break slide that holds content of its own.
C3_Witness ==
    \E i \in DOMAIN doc :
        /\ i > 1
        /\ started[i].by = "thematic_break"
        /\ started[i - 1].by = "heading"
        /\ doc[i].title = [runs |-> <<[bold |-> TRUE, italic |-> FALSE, monospace |-> FALSE,
                                       hyperlink |-> <<>>, text |-> "A"],
                                      [bold |-> FALSE, italic |-> FALSE, monospace |-> FALSE,
                                       hyperlink |-> <<>>, text |-> "B"]>>]
        /\ Len(PassedTo(i)) > 0

\* C4: a finalized slide without layout directive has layout section_header
\* when none of its placeholders holds a token and title_and_content when
\* exactly one does, however many empty placeholders it has.
C4_ZeroOrOne ==
    \A i \in Finalized :
        NoDirective(i) =>
            /\ Cardinality(NonEmpty(doc[i])) = 0 => doc[i].layout = "section_header"
            /\ Cardinality(NonEmpty(doc[i])) = 1 => doc[i].layout = "title_and_content"

\* C4 witness: a finalized slide whose only non-empty placeholder follows an
\* empty one, and a finalized slide that holds no token.
C4_Witness ==
    /\ \E i \in Finalized :
        /\ NoDirective(i)
        /\ Cardinality(NonEmpty(doc[i])) = 1
        /\ Len(doc[i].placeholders[1]) = 0
    /\ \E i \in Finalized :
        /\ NoDirective(i)
        /\ Cardinality(NonEmpty(doc[i])) = 0

\* Slides for which finalize_slide has been called, the call that raised included.
FinalizeCalled == Finalized \cup (IF pc = "error" THEN {current_slide + 1} ELSE {})

\* C5: a slide without layout directive and with exactly two non-empty
\* placeholders, once finalized, has layout two_content when neither
\* placeholder 0 nor placeholder 1 starts with a monopoly token and
\* content_with_caption otherwise, empty placeholders notwithstanding.
C5_TwoNonEmpty ==
    \A i \in FinalizeCalled :
        (NoDirective(i) /\ Cardinality(NonEmpty(doc[i])) = 2) =>
            LET ph == doc[i].placeholders
                monopoly(p) == Len(ph[p]) > 0 /\ ph[p][1].consume = "monopoly"
            IN doc[i].layout = IF ~monopoly(1) /\ ~monopoly(2)
                               THEN "two_content" ELSE "content_with_caption"

\* C6 as claimed: every slide finalize_slide has run for has a non-empty layout.
C6_LayoutNeverEmpty == \A i \in Finalized : doc[i].layout # ""

\* C6 amended: a finalized slide has an empty layout exactly when it has no
\* layout directive and more than two non-empty placeholders.
C6_EmptyOnlyAboveTwo ==
    \A i \in Finalized :
        doc[i].layout = "" <=> (NoDirective(i) /\ Cardinality(NonEmpty(doc[i])) > 2)

\* C6 witness: a returned document with a slide left without layout: it has
\* three non-empty placeholders and no directive.
C6_Witness ==
    /\ pc = "done"
    /\ \E i \in DOMAIN slides :
        /\ slides[i].layout = ""
        /\ Cardinality(NonEmpty(slides[i])) = 3

Last(seq) == seq[Len(seq)]

InferredLayouts == {"section_header", "title_and_content", "two_content",
                    "content_with_caption", ""}

\* C7: a slide's layout is the value of the last layout directive dispatched
\* while it was the current slide, before and after finalize_slide and
\* whatever its placeholders; a slide that received no directive has an
\* inferred layout (none while under construction), never a directive's value.
C7_DirectiveWins ==
    /\ Len(directive) = Len(doc)
    /\ \A i \in DOMAIN doc :
        /\ ~NoDirective(i) => doc[i].layout = Last(directive[i])
        /\ NoDirective(i) => doc[i].layout \in InferredLayouts
        /\ (NoDirective(i) /\ i \notin Finalized) => doc[i].layout = ""

\* C7 witness: a finalized slide that received two different directives and
\* holds content, so that inference would have given another layout.
C7_Witness ==
    \E i \in Finalized :
        /\ Len(directive[i]) = 2
        /\ directive[i][1] # directive[i][2]
        /\ Cardinality(NonEmpty(doc[i])) = 1
        /\ doc[i].layout = directive[i][2]

Vacuous(slide) == DOMAIN slide.title = {} /\ Len(slide.placeholders[1]) = 0

\* C8: the returned document holds no slide whose title is empty and whose
\* first placeholder is empty.
C8_NoVacuousSlide ==
    pc = "done" => \A i \in DOMAIN slides : ~Vacuous(slides[i])

HasContent(slide) == DOMAIN slide.title # {} \/ NonEmpty(slide) # {}

\* Whether sequence a is b with some elements left out, order kept.
RECURSIVE IsSubsequence(_, _)
IsSubsequence(a, b) ==
    IF Len(a) = 0 THEN TRUE
    ELSE IF Len(b) = 0 THEN FALSE
    ELSE IF Head(a) = Head(b) THEN IsSubsequence(Tail(a), Tail(b))
    ELSE IsSubsequence(a, Tail(b))

\* C9: every slide that has a title or holds a content token in any
\* placeholder is in the returned document, and the returned slides are the
\* slides before pruning in their order.
C9_OnlyVacuousDropped ==
    pc = "done" =>
        /\ IsSubsequence(slides, unpruned)
        /\ IsSubsequence(SelectSeq(unpruned, HasContent), slides)

\* C10: the pass never aborts.
C10_NeverAborts == pc # "error"

(***************************************************************************)
(* The passes below are studied one call at a time: the arguments are      *)
(* drawn when the call is made, and the segmenter's state stays idle.      *)
(***************************************************************************)
segvars == <<slides, current_slide, current_placeholder, prev_token, pos, printed, ended,
             history>>

SegIdle ==
    /\ slides = <<>>
    /\ current_slide = 0
    /\ current_placeholder = 0
    /\ prev_token = EmptyDict
    /\ pos = 0
    /\ printed = <<>>
    /\ ended = FALSE
    /\ breaks = 0
    /\ finalize_calls = 0
    /\ started = <<>>
    /\ passed = <<>>
    /\ directive = <<>>
    /\ unpruned = <<>>
    /\ wildcards = <<>>

GrowIdle ==
    /\ shapes = <<>>
    /\ shapes_no_title = <<>>
    /\ grow_i = 0
    /\ grow_log = <<>>

convvars == <<prs, conv, stack>>

ConvIdle ==
    /\ prs = <<>>
    /\ conv = EmptyDict
    /\ stack = <<>>

\* A call about to be made with the given arguments.
Calling(arguments) ==
    /\ SegIdle
    /\ GrowIdle
    /\ ConvIdle
    /\ pc = "call"
    /\ call \in arguments
    /\ ret = <<>>

\* The call returns value.
Return(value) ==
    /\ ret' = Append(ret, value)
    /\ pc' = "returned"
    /\ UNCHANGED <<segvars, call, shapes, shapes_no_title, grow_i, grow_log, convvars>>

Returned(fn) == pc = "returned" /\ call.fn = fn

(***************************************************************************)
(* The Run Builder on its own: paragraph(children) for every inline token  *)
(* tree of at most MaxNodes tokens.  A softbreak token has no raw and no   *)
(* children; a codespan token has a raw and no children.                   *)
(***************************************************************************)
MaxNodes == 4

softbreak == [type |-> "softbreak"]
codespanC == [type |-> "codespan", raw |-> "c"]
strong(children) == [type |-> "strong", children |-> children]
emphasis(children) == [type |-> "emphasis", children |-> children]
link(children) == [type |-> "link", attrs |-> [url |-> <<"u">>], children |-> children]

InlineLeaves == {txtA, txtB, codespanC, softbreak}

RECURSIVE token_count(_), tokens_count(_)
token_count(token) == 1 + tokens_count(get_children(token))

tokens_count(children) ==
    IF Len(children) = 0 THEN 0
    ELSE token_count(Head(children)) + tokens_count(Tail(children))

\* The inline tokens of at most n tokens, and the child lists of at most n tokens.
RECURSIVE InlineTokens(_), InlineChildren(_)
InlineTokens(n) ==
    IF n = 0 THEN {}
    ELSE InlineLeaves \cup
         UNION {{strong(c), emphasis(c), link(c)} : c \in InlineChildren(n - 1) \ {<<>>}}

InlineChildren(n) ==
    {<<>>} \cup UNION {{<<t>> \o c : c \in InlineChildren(n - token_count(t))} :
                        t \in InlineTokens(n)}

InitRuns ==
    Calling({[fn |-> "paragraph", children |-> c] : c \in InlineChildren(MaxNodes) \ {<<>>}})

BuildRuns ==
    /\ pc = "call"
    /\ call.fn = "paragraph"
    /\ Return(paragraph(call.children))

NextRuns == BuildRuns

SpecRuns == InitRuns /\ [][NextRuns]_vars

\* The addresses of the tokens at and after position k of a child list, and of
\* everything below them, in pre-order.  An address is the path of child
\* positions that leads from the root list to the token.
RECURSIVE PreOrder(_, _, _)
PreOrder(children, prefix, k) ==
    IF k > Len(children) THEN <<>>
    ELSE <<Append(prefix, k)>>
         \o PreOrder(get_children(children[k]), Append(prefix, k), 1)
         \o PreOrder(children, prefix, k + 1)

RECURSIVE TokenAt(_, _)
TokenAt(children, path) ==
    IF Len(path) = 1 THEN children[path[1]]
    ELSE TokenAt(get_children(children[path[1]]), Tail(path))

\* The token at path, or one of its ancestors, has the given type.
OnPath(children, path, type) ==
    \E k \in 1..Len(path) : TokenAt(children, SubSeq(path, 1, k)).type = type

TextBearing(children) ==
    SelectSeq(PreOrder(children, <<>>, 1), LAMBDA p : "raw" \in DOMAIN TokenAt(children, p))

\* The tokens the specification has emit a run: text-bearing ones and softbreaks.
Emitting(children) ==
    SelectSeq(PreOrder(children, <<>>, 1),
              LAMBDA p : \/ "raw" \in DOMAIN TokenAt(children, p)
                         \/ TokenAt(children, p).type = "softbreak")

\* C11: every softbreak of the tree yields exactly one run, whose text is a
\* single space, at the softbreak's position among the emitted runs.
C11_SoftbreakSpace ==
    Returned("paragraph") =>
        LET at == Emitting(call.children)
        IN /\ Len(ret[1]) = Len(at)
           /\ \A k \in DOMAIN at :
                  TokenAt(call.children, at[k]).type = "softbreak" => ret[1][k].text = " "

\* C12: the runs are the text-bearing tokens in pre-order, and a run is bold
\* (italic, monospace, hyperlinked) exactly when its token or an ancestor of
\* it is a strong (emphasis, codespan, link) token.
C12_StylesFromAncestors ==
    Returned("paragraph") =>
        LET at == TextBearing(call.children)
        IN /\ Len(ret[1]) = Len(at)
           /\ \A k \in DOMAIN at :
                  /\ ret[1][k].text = TokenAt(call.children, at[k]).raw
                  /\ ret[1][k].bold = OnPath(call.children, at[k], "strong")
                  /\ ret[1][k].italic = OnPath(call.children, at[k], "emphasis")
                  /\ ret[1][k].monospace = OnPath(call.children, at[k], "codespan")
                  /\ (ret[1][k].hyperlink # <<>>) = OnPath(call.children, at[k], "link")

\* Two styles accumulate on one run and a later sibling run carries neither.
C12_Witness ==
    /\ Returned("paragraph")
    /\ \E k \in DOMAIN ret[1] : \E j \in DOMAIN ret[1] :
           /\ k < j
           /\ ret[1][k].bold /\ ret[1][k].italic
           /\ ~ret[1][j].bold /\ ~ret[1][j].italic

(***************************************************************************)
(* List flattening on its own: process_list for every list token of at     *)
(* most MaxItems items.  An item holds its own text (a block_text in a     *)
(* tight list, a paragraph in a loose one; the block_text of an item       *)
(* without text has no children), then at most one nested list.            *)
(***************************************************************************)
MaxItems == 3

ItemTexts == {block_text(<<txtA>>), block_text(<<txtB>>), block_text(<<>>), para(<<txtA>>)}

RECURSIVE item_count(_), items_count(_)
item_count(token) ==
    (IF token.type = "list_item" THEN 1 ELSE 0) + items_count(get_children(token))

items_count(children) ==
    IF Len(children) = 0 THEN 0
    ELSE item_count(Head(children)) + items_count(Tail(children))

\* The list tokens, the items and the item sequences of at most n items.
RECURSIVE Lists(_), Items(_), ItemSeqs(_)
Lists(n) == {list(o, c) : o \in BOOLEAN, c \in ItemSeqs(n) \ {<<>>}}

Items(n) ==
    IF n = 0 THEN {}
    ELSE {item(<<t>>) : t \in ItemTexts}
         \cup {item(<<t, l>>) : t \in ItemTexts, l \in Lists(n - 1)}

ItemSeqs(n) ==
    {<<>>} \cup UNION {{<<i>> \o c : c \in ItemSeqs(n - item_count(i))} : i \in Items(n)}

InitList == Calling({[fn |-> "process_list", list_token |-> l] : l \in Lists(MaxItems)})

\* Line 274: process_list(token, token['attrs']['ordered'])
FlattenList ==
    /\ pc = "call"
    /\ call.fn = "process_list"
    /\ Return(process_list(call.list_token, get_ordered(call.list_token)))

NextList == FlattenList

SpecList == InitList /\ [][NextList]_vars

\* The number of tokens of the given type on the way from the root to path.
RECURSIVE CountOnPath(_, _, _)
CountOnPath(children, path, type) ==
    (IF TokenAt(children, path).type = type THEN 1 ELSE 0)
    + (IF Len(path) = 1 THEN 0
       ELSE CountOnPath(children, SubSeq(path, 1, Len(path) - 1), type))

\* The addresses of the item texts that are not empty, in pre-order.
ItemTextsAt(root) ==
    SelectSeq(PreOrder(root, <<>>, 1),
              LAMBDA p : /\ TokenAt(root, p).type \in {"block_text", "paragraph"}
                         /\ get_children(TokenAt(root, p)) # <<>>)

\* C13: the flat sequence lists the item texts in depth-first pre-order, each
\* at the depth given by the number of lists nested around its item: 0 for
\* the top-level list, k for a list nested k levels below it.
C13_FlatPreOrder ==
    Returned("process_list") =>
        LET root == <<call.list_token>>
            at == ItemTextsAt(root)
            flat == ret[1].children
        IN /\ Len(flat) = Len(at)
           /\ \A k \in DOMAIN at :
                  /\ flat[k].depth = CountOnPath(root, at[k], "list") - 1
                  /\ flat[k].runs = paragraph(get_children(TokenAt(root, at[k])))

\* A nested item's record sits between its parent's record and the record
\* of the parent's next sibling.
C13_Witness ==
    /\ Returned("process_list")
    /\ \E k \in DOMAIN ret[1].children :
           /\ k + 2 \in DOMAIN ret[1].children
           /\ ret[1].children[k].depth = 0
           /\ ret[1].children[k + 1].depth = 1
           /\ ret[1].children[k + 2].depth = 0
           /\ ret[1].children[k].runs # ret[1].children[k + 2].runs

(***************************************************************************)
(* Geometry: expand(shapes, idx, p) of src/utils/expand.py.  A shape is    *)
(* the dict that dict_shape builds: top, left, width, height, and the keys *)
(* of the layout placeholder's JSON name (grow, margin) when it has them.  *)
(* Lengths are integers (EMU); a margin is a whole number of inches.       *)
(***************************************************************************)
GridMax == 3

Sides == {1, 2}

Rects(g) ==
    {[top |-> t, left |-> l, width |-> w, height |-> h] :
        <<t, l, w, h>> \in {q \in (0..g) \X (0..g) \X Sides \X Sides :
                               q[1] + q[4] <= g /\ q[2] + q[3] <= g}}

max2(a, b) == IF a >= b THEN a ELSE b

min2(a, b) == IF a <= b THEN a ELSE b

abs(a) == IF a < 0 THEN -a ELSE a

\* min(...) of a non-empty collection of numbers
min(S) == CHOOSE x \in S : \A y \in S : x <= y

max(S) == CHOOSE x \in S : \A y \in S : x >= y

coordinatify(shape) ==
    [right |-> shape.left + shape.width,
     bottom |-> shape.top + shape.height,
     tl |-> <<shape.top, shape.left>>,
     tr |-> <<shape.top, shape.left + shape.width>>,
     bl |-> <<shape.top + shape.height, shape.left>>,
     br |-> <<shape.top + shape.height, shape.left + shape.width>>] @@ shape

are_related(foo, bar, direction) ==
    IF direction = "left"
    THEN /\ bar.left + bar.width <= foo.left
         /\ max2(foo.top, bar.top) <= min2(foo.top + foo.height, bar.top + bar.height)
    ELSE IF direction = "right"
    THEN /\ bar.left >= foo.left + foo.width
         /\ max2(foo.top, bar.top) <= min2(foo.top + foo.height, bar.top + bar.height)
    ELSE IF direction = "above"
    THEN /\ bar.top + bar.height <= foo.top
         /\ max2(foo.left, bar.left) <= min2(foo.left + foo.width, bar.left + bar.width)
    ELSE IF direction = "below"
    THEN /\ bar.top >= foo.top + foo.height
         /\ max2(foo.left, bar.left) <= min2(foo.left + foo.width, bar.left + bar.width)
    ELSE FALSE

find_canvas(all) ==
    LET top == min({all[k].top : k \in DOMAIN all})
        left == min({all[k].left : k \in DOMAIN all})
        width == max({all[k].left + all[k].width : k \in DOMAIN all}) - left
        height == max({all[k].top + all[k].height : k \in DOMAIN all}) - top
    IN coordinatify([top |-> top, left |-> left, width |-> width, height |-> height])

emu(val) == val * 914400

margin_of(shape) == IF "margin" \in DOMAIN shape THEN shape.margin ELSE 0

greater_margin(foo, bar) ==
    IF margin_of(foo) > margin_of(bar) THEN emu(margin_of(foo)) ELSE emu(margin_of(bar))

dir ==
    [d |-> <<"left", "right", "above", "below">>,
     left |-> <<"left", "right">>,
     right |-> <<"right", "left">>,
     above |-> <<"top", "bottom">>,
     below |-> <<"bottom", "top">>]

\* sphs.pop(idx): the element at the 0-based idx, and the list without it
popped(sphs, idx) == sphs[idx + 1]

after_pop(sphs, idx) ==
    [k \in 1..(Len(sphs) - 1) |-> IF k <= idx THEN sphs[k] ELSE sphs[k + 1]]

\* Line 76: related = [s for s in bars if are_related(foo, s, d)]
related_to(foo, bars, d) == SelectSeq(bars, LAMBDA s : are_related(foo, s, d))

\* Line 78
most_close(foo, related, d) ==
    min({abs(foo[dir[d][1]] - related[k][dir[d][2]]) - greater_margin(foo, related[k]) :
         k \in DOMAIN related})

\* Line 81
reaching_canvas(foo, canvas, d) == abs(foo[dir[d][1]] - canvas[dir[d][1]])

\* Lines 77-82: the delta of one direction
delta(foo, related, canvas, d) ==
    IF Len(related) > 0 THEN most_close(foo, related, d) ELSE reaching_canvas(foo, canvas, d)

\* Lines 68-84
deltas_of(foo, bars, canvas) ==
    [left |-> delta(foo, related_to(foo, bars, "left"), canvas, "left"),
     right |-> delta(foo, related_to(foo, bars, "right"), canvas, "right"),
     above |-> delta(foo, related_to(foo, bars, "above"), canvas, "above"),
     below |-> delta(foo, related_to(foo, bars, "below"), canvas, "below")]

\* Line 56
coordinatified(all) == [k \in DOMAIN all |-> coordinatify(all[k])]

expand(all, idx) ==
    deltas_of(popped(coordinatified(all), idx), after_pop(coordinatified(all), idx),
              find_canvas(all))

\* The shape lists of the study: three shapes on the grid, the first with or
\* without a margin of one inch.
Margins == {EmptyDict, [margin |-> 1]}

ShapeDicts == {r @@ m : r \in Rects(GridMax), m \in Margins}

InitExpand ==
    \E a \in ShapeDicts, b \in Rects(GridMax), c \in Rects(GridMax), i \in 0..2 :
        Calling({[fn |-> "expand", shapes |-> <<a, b, c>>, idx |-> i]})

Expand ==
    /\ pc = "call"
    /\ call.fn = "expand"
    /\ Return(expand(call.shapes, call.idx))

NextExpand == Expand

SpecExpand == InitExpand /\ [][NextExpand]_vars

\* The specification's reading of expand.  The other shape lies on side d of
\* the subject; the gap between the facing edges; the subject's distance to
\* the same edge of the bounding box of all shapes.
Subject == coordinatify(call.shapes[call.idx + 1])

Others == {coordinatify(call.shapes[k]) : k \in DOMAIN call.shapes \ {call.idx + 1}}

OnSide(bar, d) ==
    CASE d = "left" -> bar.right <= Subject.left
      [] d = "right" -> bar.left >= Subject.right
      [] d = "above" -> bar.bottom <= Subject.top
      [] d = "below" -> bar.top >= Subject.bottom

Gap(bar, d) ==
    CASE d = "left" -> Subject.left - bar.right
      [] d = "right" -> bar.left - Subject.right
      [] d = "above" -> Subject.top - bar.bottom
      [] d = "below" -> bar.top - Subject.bottom

BoundingBoxDistance(d) ==
    CASE d = "left" -> Subject.left - min({s.left : s \in Others \cup {Subject}})
      [] d = "right" -> max({s.right : s \in Others \cup {Subject}}) - Subject.right
      [] d = "above" -> Subject.top - min({s.top : s \in Others \cup {Subject}})
      [] d = "below" -> max({s.bottom : s \in Others \cup {Subject}}) - Subject.bottom

\* The spans [a1, a2) and [b1, b2) have a point in common.
HalfOpenOverlap(a1, a2, b1, b2) == max2(a1, b1) < min2(a2, b2)

PerpendicularOverlap(bar, d) ==
    IF d \in {"left", "right"}
    THEN HalfOpenOverlap(Subject.top, Subject.bottom, bar.top, bar.bottom)
    ELSE HalfOpenOverlap(Subject.left, Subject.right, bar.left, bar.right)

Qualifying(d) == {bar \in Others : OnSide(bar, d) /\ PerpendicularOverlap(bar, d)}

Directions == {"left", "right", "above", "below"}

\* C14: in each direction the delta is set by exactly the shapes that lie
\* entirely on that side and whose perpendicular span overlaps the subject's
\* under the half-open test; a shape that only touches the subject's span at
\* an endpoint does not constrain the delta.
C14_HalfOpenNeighbors ==
    Returned("expand") =>
        \A d \in Directions :
            ret[1][d] = IF Qualifying(d) = {}
                        THEN BoundingBoxDistance(d)
                        ELSE min({Gap(bar, d) - greater_margin(Subject, bar) :
                                  bar \in Qualifying(d)})

\* C15: a delta is the non-negative distance to the bounding box of all
\* shapes when no neighbor qualifies in its direction, and at most the raw
\* gap to the nearest qualifying neighbor otherwise.
C15_DeltaBounds ==
    Returned("expand") =>
        \A d \in Directions :
            IF Qualifying(d) = {}
            THEN ret[1][d] = BoundingBoxDistance(d) /\ ret[1][d] >= 0
            ELSE ret[1][d] <= min({Gap(bar, d) : bar \in Qualifying(d)})

(***************************************************************************)
(* The grow pass of convert_json_to_pptx (src/json2pptx.py lines 119-156)  *)
(* on a slide with two shapes besides the title.  A shape object has a     *)
(* name and a geometry; the JSON in the name of its layout placeholder     *)
(* carries the grow code.  The title is shape 0 of the slide and so never  *)
(* among shapes_no_title.                                                  *)
(***************************************************************************)
GrowCodes == 1..9

Annotations == {EmptyDict} \cup {[grow |-> g] : g \in GrowCodes}

ShapeObjects(name) == {[name |-> name] @@ r : r \in Rects(GridMax)}

dict_shape(shape, from_pl) ==
    from_pl @@ [name |-> shape.name, top |-> shape.top, left |-> shape.left,
                width |-> shape.width, height |-> shape.height]

\* Lines 122-129, for the given shape objects and placeholder names.
shape_dicts(objects, placeholders) ==
    [k \in DOMAIN objects |-> dict_shape(objects[k], placeholders[k])]

\* Lines 137-151
grown(foo_shp, grow, l, r, a, b) ==
    LET s1 == IF grow \in {1, 2, 3} THEN [foo_shp EXCEPT !.height = @ + b] ELSE foo_shp
        s2 == IF grow \in {1, 4, 7}
              THEN [s1 EXCEPT !.left = @ - l, !.width = @ + l + r] ELSE s1
        s3 == IF grow \in {3, 6, 9} THEN [s2 EXCEPT !.width = @ + r] ELSE s2
        s4 == IF grow \in {7, 8, 9}
              THEN [s3 EXCEPT !.top = @ - a, !.height = @ + a + b] ELSE s3
    IN IF grow = 5
       THEN [s4 EXCEPT !.left = @ - l, !.top = @ - a,
                       !.width = @ + l + r, !.height = @ + a + b]
       ELSE s4

\* The placeholders of a layout lie side by side: their interiors are disjoint.
apart(p, q) ==
    \/ p.left + p.width <= q.left
    \/ q.left + q.width <= p.left
    \/ p.top + p.height <= q.top
    \/ q.top + q.height <= p.top

InitGrow ==
    /\ SegIdle
    /\ ConvIdle
    /\ pc = "snapshot"
    /\ shapes_no_title \in {s \in ShapeObjects("Content Placeholder 2")
                                  \X ShapeObjects("Content Placeholder 3") :
                                apart(s[1], s[2])}
    /\ call \in {[fn |-> "grow", placeholders |-> <<p, q>>, shapes |-> shapes_no_title] :
                    p \in Annotations, q \in Annotations}
    /\ ret = <<>>
    /\ shapes = <<>>
    /\ grow_i = 0
    /\ grow_log = <<>>

Snapshot ==
    /\ pc = "snapshot"
    /\ shapes' = shape_dicts(shapes_no_title, call.placeholders)
    /\ pc' = "grow"
    /\ UNCHANGED <<segvars, call, ret, shapes_no_title, grow_i, grow_log, convvars>>

\* Lines 153-156: the four assignments to the shape object.
assigned(shape, foo_shp) ==
    [shape EXCEPT !.left = foo_shp.left, !.top = foo_shp.top,
                  !.width = foo_shp.width, !.height = foo_shp.height]

\* Lines 135-151: the new geometry of a shape, given its deltas.
applied(foo_shp, grow, deltas) ==
    grown(foo_shp, grow, deltas.left, deltas.right, deltas.above, deltas.below)

\* What an iteration that grows a shape leaves in the history.
logged(i, grow, deltas, slide, foo_shp) ==
    [i |-> i, grow |-> grow, deltas |-> deltas, slide |-> slide, before |-> foo_shp,
     after |-> applied(foo_shp, grow, deltas)]

\* One iteration of the loop of line 132, expand being handed the list all.
GrowIteration(all) ==
    /\ pc = "grow"
    /\ grow_i < Len(shapes_no_title)
    /\ IF "grow" \in DOMAIN shapes[grow_i + 1]
       THEN /\ grow_log' = Append(grow_log,
                    logged(grow_i, shapes[grow_i + 1].grow, expand(all, grow_i),
                           shapes_no_title,
                           dict_shape(shapes_no_title[grow_i + 1], EmptyDict)))
            /\ shapes_no_title' =
                   [shapes_no_title EXCEPT ![grow_i + 1] =
                       assigned(@, grow_log'[Len(grow_log')].after)]
       ELSE UNCHANGED <<shapes_no_title, grow_log>>
    /\ grow_i' = grow_i + 1
    /\ pc' = IF grow_i + 1 < Len(shapes_no_title) THEN "grow" ELSE "grown"
    /\ UNCHANGED <<segvars, call, ret, shapes, convvars>>

\* Faulty variant: the deltas are computed from the shapes as they are now.
GrowStep_live == GrowIteration(shape_dicts(shapes_no_title, call.placeholders))

\* Line 136: expand(shapes, i, prs)
GrowStep == GrowIteration(shapes)

NextGrow == Snapshot \/ GrowStep

SpecGrow == InitGrow /\ [][NextGrow]_vars

\* The edges a grow code selects on the numeric keypad:
\*     7 8 9
\*     4 5 6
\*     1 2 3
Selects(grow, edge) ==
    CASE edge = "left" -> grow \in {7, 4, 1, 5}
      [] edge = "right" -> grow \in {9, 6, 3, 5}
      [] edge = "top" -> grow \in {7, 8, 9, 5}
      [] edge = "bottom" -> grow \in {1, 2, 3, 5}

\* How far an edge moved outward between two geometries of a shape.
MovedOut(before, after, edge) ==
    CASE edge = "left" -> before.left - after.left
      [] edge = "right" -> (after.left + after.width) - (before.left + before.width)
      [] edge = "top" -> before.top - after.top
      [] edge = "bottom" -> (after.top + after.height) - (before.top + before.height)

DeltaOf(deltas, edge) ==
    CASE edge = "left" -> deltas.left
      [] edge = "right" -> deltas.right
      [] edge = "top" -> deltas.above
      [] edge = "bottom" -> deltas.below

\* C16: growing a shape moves each edge its code selects outward by that
\* edge's delta and leaves every other edge where it was.
C16_NumpadEdges ==
    \A k \in DOMAIN grow_log :
        \A edge \in {"left", "right", "top", "bottom"} :
            MovedOut(grow_log[k].before, grow_log[k].after, edge)
                = IF Selects(grow_log[k].grow, edge)
                  THEN DeltaOf(grow_log[k].deltas, edge) ELSE 0

\* C17: the deltas every iteration used are those of the geometry the
\* shapes had before the first of them was grown.
C17_DeltasFromSnapshot ==
    \A k \in DOMAIN grow_log :
        grow_log[k].deltas
            = expand(shape_dicts(call.shapes, call.placeholders), grow_log[k].i)

\* A shape was grown after another one, and the geometry the slide had by
\* then would have given it other deltas.
C17_Witness ==
    \E k \in DOMAIN grow_log :
        /\ k > 1
        /\ grow_log[k].slide # call.shapes
        /\ grow_log[k].deltas
               # expand(shape_dicts(grow_log[k].slide, call.placeholders), grow_log[k].i)

(***************************************************************************)
(* calc_resloc (src/json2pptx.py lines 158-234).  Its divisions and        *)
(* multiplications are Python float operations: each result is the exact   *)
(* value rounded to the nearest binary floating-point number, ties to the  *)
(* even mantissa.  A number is the fraction n/d in lowest terms; the       *)
(* mantissa has MantissaBits bits here, where a Python float has 53.       *)
(***************************************************************************)
MantissaBits == 7

MaxDim == 5

RECURSIVE gcd(_, _)
gcd(a, b) == IF b = 0 THEN a ELSE gcd(b, a % b)

\* The fraction n/d (d > 0) in lowest terms.
frac(n, d) == [n |-> n \div gcd(abs(n), d), d |-> d \div gcd(abs(n), d)]

int(k) == [n |-> k, d |-> 1]

\* The value m * k, m being the quotient n/d scaled into the mantissa's range
\* [2^(MantissaBits-1), 2^MantissaBits) and rounded half to even.
RECURSIVE nearest(_, _, _)
nearest(n, d, k) ==
    IF n < d * 2^(MantissaBits - 1) THEN nearest(2 * n, d, frac(k.n, 2 * k.d))
    ELSE IF n >= d * 2^MantissaBits THEN nearest(n, 2 * d, frac(2 * k.n, k.d))
    ELSE LET m == n \div d
             r == n % d
             up == 2 * r > d \/ (2 * r = d /\ m % 2 = 1)
         IN frac((IF up THEN m + 1 ELSE m) * k.n, k.d)

\* The float nearest to the exact value x.
float(x) ==
    IF x.n = 0 THEN x
    ELSE IF x.n > 0 THEN nearest(x.n, x.d, int(1))
    ELSE LET y == nearest(-x.n, x.d, int(1)) IN [n |-> -y.n, d |-> y.d]

\* Exact arithmetic on fractions (b # 0 in quotient).
quotient(a, b) ==
    IF b.n > 0 THEN frac(a.n * b.d, a.d * b.n) ELSE frac(-(a.n * b.d), a.d * (-b.n))

times(a, b) == frac(a.n * b.n, a.d * b.d)

minus(a, b) == frac(a.n * b.d - b.n * a.d, a.d * b.d)

plus(a, b) == frac(a.n * b.d + b.n * a.d, a.d * b.d)

\* Python's a / b, a * b, a - b, a + b and a < b on floats (b # 0 in a / b).
truediv(a, b) == float(quotient(a, b))

mul(a, b) == float(times(a, b))

sub(a, b) == float(minus(a, b))

add(a, b) == float(plus(a, b))

lt(a, b) == a.n * b.d < b.n * a.d

\* Lines 178-183
align_val(align) == IF align < 1 \/ align > 9 THEN 5 ELSE align

\* Lines 186-191
factor_x(align) ==
    IF align_val(align) \in {1, 4, 7} THEN int(0)
    ELSE IF align_val(align) \in {2, 5, 8} THEN frac(1, 2)
    ELSE int(1)

\* Lines 194-199
factor_y(align) ==
    IF align_val(align) \in {7, 8, 9} THEN int(0)
    ELSE IF align_val(align) \in {4, 5, 6} THEN frac(1, 2)
    ELSE int(1)

\* Lines 213-222, the image being relatively narrower than the placeholder
fit_height(p, i_ratio, align) ==
    [left |-> add(p.left, mul(sub(p.width, mul(p.height, i_ratio)), factor_x(align))),
     top |-> p.top,
     width |-> mul(p.height, i_ratio),
     height |-> p.height]

\* Lines 224-233
fit_width(p, i_ratio, align) ==
    [left |-> p.left,
     top |-> add(p.top, mul(sub(p.height, truediv(p.width, i_ratio)), factor_y(align))),
     width |-> p.width,
     height |-> truediv(p.width, i_ratio)]

resloc(p, p_ratio, i_ratio, align) ==
    IF lt(i_ratio, p_ratio) THEN fit_height(p, i_ratio, align)
    ELSE fit_width(p, i_ratio, align)

calc_resloc(p, i, align) ==
    resloc(p, truediv(p.width, p.height), truediv(i.size[1], i.size[2]), align)

Lengths == {int(k) : k \in 1..MaxDim}

Offsets == {int(0), int(1)}

InitAlign ==
    \E l \in Offsets, t \in Offsets, w \in Lengths, h \in Lengths,
       iw \in Lengths, ih \in Lengths, a \in 0..10 :
        Calling({[fn |-> "calc_resloc",
                  p |-> [left |-> l, top |-> t, width |-> w, height |-> h],
                  i |-> [size |-> <<iw, ih>>],
                  align |-> a]})

\* Line 319: resloc = calc_resloc(current_placeholder, i, dynloc.get("align", 5))
Resolve ==
    /\ pc = "call"
    /\ call.fn = "calc_resloc"
    /\ Return(calc_resloc(call.p, call.i, call.align))

\* The same image resolved once more, inside the rectangle just returned.
ResolveAgain ==
    /\ Returned("calc_resloc")
    /\ Len(ret) = 1
    /\ Return(calc_resloc(ret[1], call.i, call.align))

NextAlign == Resolve \/ ResolveAgain

SpecAlign == InitAlign /\ [][NextAlign]_vars

\* C18: under align 5, resolving the same content inside the rectangle a
\* first resolve returned gives that rectangle again.
C18_Idempotent ==
    Returned("calc_resloc") /\ Len(ret) = 2 /\ call.align = 5 => ret[2] = ret[1]

(***************************************************************************)
(* Table column widths: columnWidths, as section 4.3 of the specification  *)
(* defines it (the repository's sources hold no implementation).  The      *)
(* argument is the list of the columns' weights; ratios are exact          *)
(* fractions.  A weight is 0 in every column or in none: the specification *)
(* does not say how the leftover is shared among columns of raw ratio 0.   *)
(***************************************************************************)
MaxCols == 5

Weights == {1, 2, 7, 8}

TotalWidths == {7, 10, 100}

RECURSIVE sum(_)
sum(ns) == IF Len(ns) = 0 THEN 0 ELSE Head(ns) + sum(Tail(ns))

RECURSIVE total(_)
total(qs) == IF Len(qs) = 0 THEN int(0) ELSE plus(Head(qs), total(Tail(qs)))

\* Faulty variant: one cap for every column count.
cap_fraction_flat(cols) == frac(9, 10)

\* cols<=2 -> 0.9, cols==3 -> 0.6, cols==4 -> 0.5, cols>=5 -> 0.4
cap_fraction(cols) ==
    IF cols <= 2 THEN frac(9, 10)
    ELSE IF cols = 3 THEN frac(6, 10)
    ELSE IF cols = 4 THEN frac(5, 10)
    ELSE frac(4, 10)

\* Raw ratio = weight / sum(weights) (uniform 1/n if all weights are 0)
raw_ratios(weights) ==
    [k \in DOMAIN weights |->
        IF sum(weights) = 0 THEN frac(1, Len(weights)) ELSE frac(weights[k], sum(weights))]

exceeds(ratio, cap) == lt(cap, ratio)

\* Columns whose raw ratio exceeds the cap are clamped to the cap
clamped(raw, cap) == [k \in DOMAIN raw |-> IF exceeds(raw[k], cap) THEN cap ELSE raw[k]]

uncapped(raw, cap) == SelectSeq(raw, LAMBDA r : ~exceeds(r, cap))

\* Faulty variant: the leftover goes nowhere.
redistributed_nowhere(raw, cap, leftover, share) == clamped(raw, cap)

\* The leftover 1 - sum(clamped ratios) goes to the uncapped columns in
\* proportion to their raw ratios; without uncapped columns it goes nowhere.
redistributed(raw, cap, leftover, share) ==
    [k \in DOMAIN raw |->
        IF exceeds(raw[k], cap) THEN cap
        ELSE plus(raw[k], times(leftover, quotient(raw[k], share)))]

final_ratios(weights) ==
    redistributed(raw_ratios(weights), cap_fraction(Len(weights)),
                  minus(int(1), total(clamped(raw_ratios(weights),
                                              cap_fraction(Len(weights))))),
                  total(uncapped(raw_ratios(weights), cap_fraction(Len(weights)))))

\* x truncated to an integer (x >= 0)
truncated(x) == x.n \div x.d

\* Final width per column = ratio * totalWidth, truncated
columnWidths(weights, totalWidth) ==
    [k \in DOMAIN weights |-> truncated(times(final_ratios(weights)[k], int(totalWidth)))]

WeightLists ==
    UNION {[1..n -> Weights] \cup {[k \in 1..n |-> 0]} : n \in 1..MaxCols}

InitCols ==
    \E w \in WeightLists, t \in TotalWidths :
        Calling({[fn |-> "columnWidths", weights |-> w, totalWidth |-> t]})

ColumnWidths ==
    /\ pc = "call"
    /\ call.fn = "columnWidths"
    /\ Return([ratios |-> final_ratios(call.weights),
               widths |-> columnWidths(call.weights, call.totalWidth)])

NextCols == ColumnWidths

SpecCols == InitCols /\ [][NextCols]_vars

\* The specification's figures, read off the call and its result.
Cols == Len(call.weights)

RawRatio(k) ==
    IF \A j \in DOMAIN call.weights : call.weights[j] = 0 THEN frac(1, Cols)
    ELSE frac(call.weights[k], sum(call.weights))

Cap ==
    CASE Cols <= 2 -> frac(9, 10)
      [] Cols = 3 -> frac(6, 10)
      [] Cols = 4 -> frac(5, 10)
      [] Cols >= 5 -> frac(4, 10)

Capped(k) == lt(Cap, RawRatio(k))

Shortfall == call.totalWidth - sum(ret[1].widths)

C20_NoneAboveCap ==
    Returned("columnWidths") =>
        \/ \A k \in 1..Cols : Capped(k)
        \/ \A k \in 1..Cols : ~lt(Cap, ret[1].ratios[k])

\* C20, amended: a capped column ends exactly at the cap, and in a table of
\* at most four columns no column's final ratio exceeds the cap.
C20_CappedAtCapUpToFour ==
    Returned("columnWidths") =>
        \A k \in 1..Cols :
            /\ Capped(k) => ret[1].ratios[k] = Cap
            /\ Cols <= 4 => ~lt(Cap, ret[1].ratios[k])

\* In a table of three or four columns one column was clamped and another
\* one ended above its raw ratio.
C20_Witness ==
    /\ Returned("columnWidths")
    /\ Cols \in {3, 4}
    /\ \E k \in 1..Cols : Capped(k)
    /\ \E k \in 1..Cols : ~Capped(k) /\ lt(RawRatio(k), ret[1].ratios[k])

(***************************************************************************)
(* The placeholder mapping loop of convert_json_to_pptx (src/json2pptx.py  *)
(* lines 71-117).  A layout is the sequence of the idx values of its       *)
(* placeholders, the title (idx 0) first.  prs.slides.add_slide gives the  *)
(* new slide one placeholder per placeholder of the layout;                *)
(* slide.placeholders[k] looks a placeholder up by its idx and raises      *)
(* KeyError when the slide has none with that idx, while                   *)
(* layout.placeholders[i] is positional.  A slide is modelled by what has  *)
(* been written into each of its placeholders.  current_placeholder is a   *)
(* local of the function: it is unbound until first assigned and keeps its *)
(* value from one slide to the next.  The grow pass that ends each         *)
(* iteration of line 71 writes no content and is studied on its own below. *)
(***************************************************************************)
MaxSlides == 2

MaxPlaceholders == 3

Layouts ==
    [TITLE_ONLY |-> <<0>>, TITLE_AND_CONTENT |-> <<0, 1>>, TWO_CONTENT |-> <<0, 1, 2>>]

\* The content token at position k of the data placeholder no of data slide s.
content(s, no, k) == [type |-> "paragraph", slide |-> s, placeholder |-> no, k |-> k]

data_slide(s, layout, n) ==
    [layout |-> layout, title |-> [runs |-> <<[text |-> "t"]>>],
     placeholders |-> [no \in 1..n |-> <<content(s, no, 1)>>]]

\* Line 86
add_slide(layout) == [idx \in {layout[i] : i \in DOMAIN layout} |-> <<>>]

\* Lines 88-90: p_map, a dict keyed by the 0-based position
p_map(slide, layout) == [i \in 0..(Cardinality(DOMAIN slide) - 1) |-> layout[i + 1]]

\* Lines 109-112: the placeholder the try block binds, or the one bound before.
bound_placeholder(current, slide_no, slide, layout, no) ==
    IF no \in DOMAIN p_map(slide, layout) /\ p_map(slide, layout)[no] \in DOMAIN slide
    THEN [slide |-> slide_no, idx |-> p_map(slide, layout)[no]]
    ELSE current

\* Lines 114-115: process_token writes each token into the placeholder.
written(deck, into, tokens) == [deck EXCEPT ![into.slide][into.idx] = @ \o tokens]

InitFill ==
    /\ SegIdle
    /\ GrowIdle
    /\ pc = "call"
    /\ \E n \in 1..MaxSlides :
           \E layout \in [1..n -> DOMAIN Layouts], count \in [1..n -> 1..MaxPlaceholders] :
               call = [fn |-> "convert_json_to_pptx",
                       slides |-> [s \in 1..n |-> data_slide(s, layout[s], count[s])]]
    /\ ret = <<>>
    /\ prs = <<>>
    /\ conv = [slide |-> 0, pholder_no |-> 0, current_placeholder |-> EmptyDict,
               printed |-> <<>>]
    /\ stack = <<>>

\* The data slide the loop of line 71 is at.
data == call.slides[conv.slide]

\* The loop of line 104 has finished on the current slide (or no slide is begun).
SlideDone == IF conv.slide = 0 THEN TRUE ELSE conv.pholder_no = Len(data.placeholders)

\* Lines 71-103: the next slide is added from its layout and its title is set.
AddSlide ==
    /\ pc = "call"
    /\ call.fn = "convert_json_to_pptx"
    /\ SlideDone
    /\ conv.slide < Len(call.slides)
    /\ LET slide == add_slide(Layouts[call.slides[conv.slide + 1].layout])
       IN prs' = Append(prs, [slide EXCEPT ![0] = call.slides[conv.slide + 1].title.runs])
    /\ conv' = [conv EXCEPT !.slide = @ + 1, !.pholder_no = 0]
    /\ UNCHANGED <<segvars, call, ret, shapes, shapes_no_title, grow_i, grow_log, stack, pc>>

\* Lines 104-117: one iteration of the loop over the slide's data placeholders.
FillPlaceholder ==
    /\ pc = "call"
    /\ call.fn = "convert_json_to_pptx"
    /\ ~SlideDone
    /\ LET no == conv.pholder_no + 1
           slide == prs[conv.slide]
           placeholder_count == Cardinality(DOMAIN slide)
           current == bound_placeholder(conv.current_placeholder, conv.slide, slide,
                                        Layouts[data.layout], no)
       IN IF placeholder_count >= no
          THEN IF current = EmptyDict
               THEN \* UnboundLocalError at line 115
                    /\ pc' = "error"
                    /\ conv' = [conv EXCEPT !.pholder_no = no]
                    /\ UNCHANGED prs
               ELSE /\ prs' = written(prs, current, data.placeholders[no])
                    /\ conv' = [conv EXCEPT !.pholder_no = no, !.current_placeholder = current]
                    /\ UNCHANGED pc
          ELSE /\ conv' = [conv EXCEPT !.pholder_no = no,
                                       !.printed = Append(@, [slide |-> conv.slide, no |-> no])]
               /\ UNCHANGED <<prs, pc>>
    /\ UNCHANGED <<segvars, call, ret, shapes, shapes_no_title, grow_i, grow_log, stack>>

\* The loop of line 71 is exhausted: the function returns (None).
Converted ==
    /\ pc = "call"
    /\ call.fn = "convert_json_to_pptx"
    /\ SlideDone
    /\ conv.slide = Len(call.slides)
    /\ pc' = "returned"
    /\ UNCHANGED <<segvars, call, ret, shapes, shapes_no_title, grow_i, grow_log, convvars>>

NextFill == AddSlide \/ FillPlaceholder \/ Converted

SpecFill == InitFill /\ [][NextFill]_vars

\* The content regions of a built slide: its placeholders other than the title.
Regions(s) == DOMAIN prs[s] \ {0}

\* The data placeholders the loop of line 104 has dealt with.
Dealt ==
    {<<s, no>> \in (1..conv.slide) \X (1..MaxPlaceholders + 1) :
        /\ no <= Len(call.slides[s].placeholders)
        /\ s = conv.slide => no <= conv.pholder_no}

\* The tokens of a data placeholder occur in some placeholder of some slide.
WrittenSomewhere(s, no) ==
    \E t \in DOMAIN prs : \E idx \in DOMAIN prs[t] :
        \E k \in DOMAIN prs[t][idx] :
            \E j \in DOMAIN call.slides[s].placeholders[no] :
                prs[t][idx][k] = call.slides[s].placeholders[no][j]

\* C21: the tokens of a data placeholder beyond the slide's content regions
\* are written into no region of any slide, a warning is printed for it, and
\* the conversion goes on to the remaining slides.
C21_SurplusSkipped ==
    /\ pc # "error"
    /\ \A d \in Dealt :
           d[2] > Cardinality(Regions(d[1])) =>
               /\ ~WrittenSomewhere(d[1], d[2])
               /\ \E k \in DOMAIN conv.printed : conv.printed[k] = [slide |-> d[1], no |-> d[2]]

(***************************************************************************)
(* dict_shape (src/json2pptx.py lines 543-558; src/utils/util.py lines     *)
(* 117-134 is the same with more keys) with the parse of the placeholder's *)
(* name.  A name is the sequence of its lexemes.  json.loads returns an    *)
(* int, a str, None, a bool, a list or a dict, or raises JSONDecodeError:  *)
(* a parsed value carries its Python type in kind, and a dict has its      *)
(* items as a record.  The try of lines 547-550 covers the parse only; the *)
(* unpacking **from_pl of line 557 is outside it and raises TypeError when *)
(* from_pl is not a mapping.                                               *)
(***************************************************************************)
Numbers == "3" :> 3 @@ "5" :> 5

Strings == "\"grow\"" :> "grow" @@ "\"align\"" :> "align" @@ "\"x\"" :> "x"

Literals == [null |-> "NoneType", true |-> "bool", false |-> "bool"]

is_scalar(lex) == lex \in DOMAIN Numbers \cup DOMAIN Strings \cup DOMAIN Literals

scalar(lex) ==
    IF lex \in DOMAIN Numbers THEN [kind |-> "int", value |-> Numbers[lex]]
    ELSE IF lex \in DOMAIN Strings THEN [kind |-> "str", value |-> Strings[lex]]
    ELSE [kind |-> Literals[lex], value |-> lex]

\* The lexemes between the first and the last.
inner(s) == [i \in 1..(Len(s) - 2) |-> s[i + 1]]

\* key : value (, key : value)*  or nothing
is_members(s) ==
    \/ Len(s) = 0
    \/ /\ Len(s) % 4 = 3
       /\ \A i \in DOMAIN s :
              CASE i % 4 = 1 -> s[i] \in DOMAIN Strings
                [] i % 4 = 2 -> s[i] = ":"
                [] i % 4 = 3 -> is_scalar(s[i])
                [] OTHER -> s[i] = ","

\* The dict of the members: a key given twice keeps its last value.
members(s) ==
    LET keys == {i \in DOMAIN s : i % 4 = 1}
    IN [k \in {Strings[s[i]] : i \in keys} |->
           LET last == CHOOSE i \in keys :
                           /\ Strings[s[i]] = k
                           /\ \A j \in keys : Strings[s[j]] = k => j <= i
           IN scalar(s[last + 2]).value]

\* value (, value)*  or nothing
is_elements(s) ==
    \/ Len(s) = 0
    \/ /\ Len(s) % 2 = 1
       /\ \A i \in DOMAIN s : IF i % 2 = 1 THEN is_scalar(s[i]) ELSE s[i] = ","

elements(s) == [i \in 1..((Len(s) + 1) \div 2) |-> scalar(s[2 * i - 1]).value]

json_loads(s) ==
    IF Len(s) = 1 /\ is_scalar(s[1]) THEN scalar(s[1])
    ELSE IF Len(s) >= 2 /\ s[1] = "{" /\ s[Len(s)] = "}" /\ is_members(inner(s))
    THEN [kind |-> "dict", value |-> members(inner(s))]
    ELSE IF Len(s) >= 2 /\ s[1] = "[" /\ s[Len(s)] = "]" /\ is_elements(inner(s))
    THEN [kind |-> "list", value |-> elements(inner(s))]
    ELSE [raised |-> "JSONDecodeError"]

\* Lines 547-550.  A call without a placeholder evaluates None.name, which
\* raises AttributeError inside the try.
from_pl(placeholder) ==
    IF "name" \notin DOMAIN placeholder THEN [kind |-> "dict", value |-> EmptyDict]
    ELSE IF "raised" \in DOMAIN json_loads(placeholder.name)
    THEN [kind |-> "dict", value |-> EmptyDict]
    ELSE json_loads(placeholder.name)

\* Lines 551-558
dict_shape_of(shape, placeholder) ==
    IF from_pl(placeholder).kind = "dict"
    THEN [value |-> dict_shape(shape, from_pl(placeholder).value)]
    ELSE [raised |-> "TypeError"]

\* Names that are no JSON, names that are JSON but no object, and objects.
NoJson ==
    {<<>>, <<"Content", "Placeholder", "2">>, <<"{", "\"grow\"", ":", "5">>,
     <<"{", "\"grow\"", "5", "}">>, <<"[", "5", ",", "]">>, <<"3", "5">>}

NoObject ==
    {<<"3">>, <<"null">>, <<"true">>, <<"\"x\"">>, <<"[", "]">>, <<"[", "5", ",", "\"x\"", "]">>}

Objects ==
    {<<"{", "}">>, <<"{", "\"grow\"", ":", "5", "}">>,
     <<"{", "\"align\"", ":", "3", ",", "\"grow\"", ":", "5", "}">>,
     <<"{", "\"grow\"", ":", "3", ",", "\"grow\"", ":", "null", "}">>}

InitShape ==
    \E shape \in ShapeObjects("Content Placeholder 2"),
       placeholder \in {EmptyDict} \cup {[name |-> n] : n \in NoJson \cup NoObject \cup Objects} :
        Calling({[fn |-> "dict_shape", shape |-> shape, placeholder |-> placeholder]})

DictShape ==
    /\ pc = "call"
    /\ call.fn = "dict_shape"
    /\ Return(dict_shape_of(call.shape, call.placeholder))

NextShape == DictShape

SpecShape == InitShape /\ [][NextShape]_vars

\* The placeholder handed to dict_shape has a name that is a JSON object.
NamesObject == "name" \in DOMAIN call.placeholder /\ call.placeholder.name \in Objects

\* C22: for a name that is absent, is no JSON or is JSON but no object,
\* dict_shape returns the shape's geometry without annotation and does not
\* raise.
C22_DefensiveParse ==
    Returned("dict_shape") /\ ~NamesObject =>
        ret[1] = [value |-> [name |-> call.shape.name, top |-> call.shape.top,
                             left |-> call.shape.left, width |-> call.shape.width,
                             height |-> call.shape.height]]

(***************************************************************************)
(* Properties of the segmentation pass, continued (specification Spec).    *)
(***************************************************************************)
\* The placeholders of the slide under construction, before and after a step.
Here == slides[current_slide + 1].placeholders

There == slides'[current_slide' + 1].placeholders

\* A step in which add_token is called, and the call it makes.
AddTokenStep == passed' # passed

Added == passed'[Len(passed')]

\* The token add_token appended before this call, if any, was shared.
PreviousShared == Len(passed) > 0 /\ passed[Len(passed)].consume = "shared"

\* This call of add_token opens a new placeholder.
Opens == Len(There) = Len(Here) + 1

\* No wildcard_break was dispatched on this slide since add_token's last call.
NoBreakSince ==
    \A k \in DOMAIN wildcards :
        wildcards[k].slide = current_slide => wildcards[k].passed < Len(passed)

\* C23: add_token opens a new placeholder exactly when the current one is
\* non-empty and the previously appended token or the new one is not shared;
\* it appends the token to the last placeholder; two shared tokens passed one
\* after the other on one slide with no wildcard_break between them share a
\* placeholder; every placeholder that is empty afterwards was empty before;
\* and on an empty current placeholder no placeholder is opened, whatever the
\* previous token was.
C23_OpensIffNeeded ==
    [][AddTokenStep =>
        /\ current_slide' = current_slide
        /\ Opens <=> /\ Len(Here[current_placeholder + 1]) > 0
                     /\ ~PreviousShared \/ Added.consume # "shared"
        /\ ~Opens => Len(There) = Len(Here)
        /\ current_placeholder' + 1 = Len(There)
        /\ There[Len(There)] =
               (IF Opens THEN <<>> ELSE Here[Len(Here)])
                   \o <<[consume |-> Added.consume] @@ Added.token>>
        /\ \A p \in 1..Len(Here) : p < Len(There) => There[p] = Here[p]
        /\ \A p \in DOMAIN There : Len(There[p]) = 0 => p \in DOMAIN Here /\ Len(Here[p]) = 0
        /\ (/\ PreviousShared
            /\ Added.consume = "shared"
            /\ passed[Len(passed)].after = Added.after
            /\ NoBreakSince)
               => /\ current_placeholder' = current_placeholder
                  /\ Len(There[Len(There)]) >= 2
                  /\ There[Len(There)][Len(There[Len(There)]) - 1]
                         = [consume |-> "shared"] @@ passed[Len(passed)].token
        /\ Len(Here[current_placeholder + 1]) = 0 => ~Opens
    ]_vars

\* C23 witness: a slide was started right after a monopoly token was appended,
\* and the shared token passed next is the first of that slide's only
\* placeholder.
C23_Witness ==
    \E k \in DOMAIN passed :
        /\ k > 1
        /\ passed[k - 1].consume = "monopoly"
        /\ passed[k].consume = "shared"
        /\ passed[k].after = passed[k - 1].after + 1
        /\ passed[k].after + 1 \in DOMAIN doc
        /\ doc[passed[k].after + 1].placeholders
               = <<(<<[consume |-> "shared"] @@ passed[k].token>>)>>

\* A step in which a wildcard_break is dispatched.
WildcardStep == wildcards' # wildcards

\* The last wildcard_break was dispatched on this slide, after add_token's last call.
BreakPending ==
    /\ Len(wildcards) > 0
    /\ wildcards[Len(wildcards)].slide = current_slide
    /\ wildcards[Len(wildcards)].passed = Len(passed)

\* C24: a wildcard_break appends one empty placeholder to the current slide
\* and makes it the current one, whether the current placeholder is empty or
\* not; the placeholders already there, the slide's other fields, the other
\* slides and the slide cursor stay as they are; and the next token passed to
\* add_token on that slide becomes the only token of its placeholder.
C24_BreakOpensOne ==
    [][/\ WildcardStep =>
           /\ current_slide' = current_slide
           /\ Len(slides') = Len(slides)
           /\ \A i \in DOMAIN slides : i # current_slide + 1 => slides'[i] = slides[i]
           /\ Len(There) = Len(Here) + 1
           /\ \A p \in DOMAIN Here : There[p] = Here[p]
           /\ There[Len(There)] = <<>>
           /\ current_placeholder' + 1 = Len(There)
           /\ slides'[current_slide + 1] =
                  [slides[current_slide + 1] EXCEPT !.placeholders = Append(@, <<>>)]
       /\ AddTokenStep /\ BreakPending =>
           /\ Len(There) = Len(Here)
           /\ There[current_placeholder' + 1] = <<[consume |-> Added.consume] @@ Added.token>>
    ]_vars

\* C24 witness: a wildcard_break was dispatched between two shared tokens of
\* one slide, and the second is alone in the placeholder the break opened.
C24_Witness ==
    \E w \in DOMAIN wildcards :
        /\ wildcards[w].passed >= 1
        /\ Len(passed) > wildcards[w].passed
        /\ passed[wildcards[w].passed].consume = "shared"
        /\ passed[wildcards[w].passed].after = wildcards[w].slide
        /\ passed[wildcards[w].passed + 1].consume = "shared"
        /\ passed[wildcards[w].passed + 1].after = wildcards[w].slide
        /\ doc[wildcards[w].slide + 1].placeholders[wildcards[w].placeholders + 1]
               = <<[consume |-> "shared"] @@ passed[wildcards[w].passed + 1].token>>

\* The content tokens of a slide, in placeholder order and position order.
ContentOf(slide) == Flatten(slide.placeholders)

\* The content tokens of the document before pruning, in slide order.
AllContent == Flatten([i \in DOMAIN doc |-> ContentOf(doc[i])])

\* The tokens passed to add_token, as it tags them, in stream order.
AllPassed == [k \in DOMAIN passed |-> [consume |-> passed[k].consume] @@ passed[k].token]

\* C25: before pruning, the content tokens of the document read in slide,
\* placeholder and position order are the tokens passed to add_token in
\* stream order, and each slide holds the tokens passed while it was the
\* current slide.
C25_ContentConserved ==
    /\ AllContent = AllPassed
    /\ \A i \in DOMAIN doc : ContentOf(doc[i]) = PassedTo(i)

\* C25 witness: a finished document whose two content tokens were passed on
\* two different slides, a slide having been finalized between them.
C25_Witness ==
    /\ pc = "done"
    /\ Len(passed) = 2
    /\ passed[1].after # passed[2].after
    /\ Len(doc) >= 2
    /\ AllContent # <<>>

(***************************************************************************)
(* The paragraph case of process_json on its own: a stream of one          *)
(* paragraph token, for every paragraph of up to MaxChildren inline        *)
(* children.                                                               *)
(***************************************************************************)
MaxChildren == 2

InlineChoices == {txtA, txtEmpty, linkB, strongA, emX, codespanC, imageA, imageNoAlt}

RECURSIVE ChildLists(_)
ChildLists(n) ==
    IF n = 0 THEN {<<>>}
    ELSE ChildLists(n - 1)
             \cup {Append(c, t) : c \in {d \in ChildLists(n - 1) : Len(d) = n - 1},
                                  t \in InlineChoices}

InitPara ==
    /\ slides = <<NEW_SLIDE>>
    /\ current_slide = 0
    /\ current_placeholder = 0
    /\ prev_token = EmptyDict
    /\ pc = "loop"
    /\ pos = 0
    /\ printed = <<>>
    /\ ended = FALSE
    /\ breaks = 0
    /\ finalize_calls = 0
    /\ started = <<[by |-> "init"]>>
    /\ passed = <<>>
    /\ directive = <<(<<>>)>>
    /\ unpruned = <<>>
    /\ wildcards = <<>>
    /\ GrowIdle
    /\ ConvIdle
    /\ ret = <<>>
    /\ call \in {[fn |-> "process_json", tokens |-> <<para(c)>>] :
                    c \in ChildLists(MaxChildren) \ {<<>>}}

\* The for loop of line 215 takes the stream's next token, a paragraph.
TakeParagraph ==
    /\ pos < Len(call.tokens)
    /\ Take /\ Quiet
    /\ ParagraphCase(call.tokens[pos + 1])

\* Line 300 is reached when the stream is exhausted.
StreamEnds == pos = Len(call.tokens) /\ EndOfStream

NextPara == TakeParagraph \/ StreamEnds \/ Prune

SpecPara == InitPara /\ [][NextPara]_vars

\* The paragraph of the stream, once the loop has taken it.
Taken == call.tokens[1]

\* An inline token other than an image has text of its own or in a child.
HasText(t) ==
    /\ t.type # "image"
    /\ \/ "raw" \in DOMAIN t /\ t.raw # ""
       \/ "children" \in DOMAIN t /\ \E j \in DOMAIN t.children : t.children[j].raw # ""

CarriesText(token) == \E k \in DOMAIN token.children : HasText(token.children[k])

SoleImage(token) == Len(token.children) = 1 /\ token.children[1].type = "image"

\* C26: a paragraph that carries non-empty text and is not a sole image
\* yields exactly one paragraph content token, placed on the current slide,
\* whatever its first child is; an image token is made from a paragraph only
\* when the image is its sole child.
C26_ParagraphKept ==
    pos = 1 =>
        /\ CarriesText(Taken) /\ ~SoleImage(Taken) =>
               /\ Len(passed) = 1
               /\ passed[1].token.type = "paragraph"
               /\ ContentOf(doc[1]) = <<[consume |-> "shared"] @@ passed[1].token>>
        /\ (\E k \in DOMAIN passed : passed[k].token.type = "image") => SoleImage(Taken)

(***************************************************************************)
(* Properties of the grow pass, continued (specification SpecGrow, where   *)
(* no shape has a margin).                                                 *)
(***************************************************************************)
\* The siblings of the shape an iteration grew, as they were at that time.
SiblingsAt(k) ==
    {grow_log[k].slide[j] : j \in DOMAIN grow_log[k].slide \ {grow_log[k].i + 1}}

\* C27: the first shape to be grown on a slide of pairwise disjoint shapes
\* overlaps no sibling afterwards, whatever its grow code and wherever the
\* sibling lies.
C27_NoNewOverlap ==
    \A k \in DOMAIN grow_log :
        grow_log[k].slide = call.shapes =>
            \A s \in SiblingsAt(k) :
                apart(grow_log[k].before, s) => apart(grow_log[k].after, s)

\* Shape i lies left of shape j in the same row, across a gap, i annotated to
\* grow right (6) and j to grow left (4).
FacingPair(i, j) ==
    /\ call.shapes[i].top = call.shapes[j].top
    /\ call.shapes[i].height = call.shapes[j].height
    /\ call.shapes[i].left + call.shapes[i].width < call.shapes[j].left
    /\ call.placeholders[i] = [grow |-> 6]
    /\ call.placeholders[j] = [grow |-> 4]

\* C28: when two shapes of a row grow toward each other, they do not overlap
\* once the grow loop has dealt with both.
C28_GapConsumedOnce ==
    pc = "grown" =>
        \A i, j \in DOMAIN call.shapes :
            FacingPair(i, j) => apart(shapes_no_title[i], shapes_no_title[j])

(***************************************************************************)
(* Properties of calc_resloc, continued (specification SpecAlign).         *)
(* Comparisons are exact; the far edges are the sums Python computes.      *)
(***************************************************************************)
le(a, b) == ~lt(b, a)

SpansWidth(p, r) == r.left = p.left /\ r.width = p.width

SpansHeight(p, r) == r.top = p.top /\ r.height = p.height

\* C29: the rectangle calc_resloc returns lies within the container and
\* spans it on one axis, and on that axis every align value gives the same
\* result.
C29_InsideContainer ==
    Returned("calc_resloc") =>
        /\ le(call.p.left, ret[1].left)
        /\ le(call.p.top, ret[1].top)
        /\ le(ret[1].width, call.p.width)
        /\ le(ret[1].height, call.p.height)
        /\ le(add(ret[1].left, ret[1].width), add(call.p.left, call.p.width))
        /\ le(add(ret[1].top, ret[1].height), add(call.p.top, call.p.height))
        /\ SpansWidth(call.p, ret[1]) \/ SpansHeight(call.p, ret[1])
        /\ \A a \in 0..10 :
               IF SpansWidth(call.p, ret[1])
               THEN SpansWidth(call.p, calc_resloc(call.p, call.i, a))
               ELSE SpansHeight(call.p, calc_resloc(call.p, call.i, a))

(***************************************************************************)
(* flatten_markdown (src/markdown_flatten_embed.py lines 10-75), called by *)
(* main (src/main.py line 49) on the input file.  The markdown files lie   *)
(* in one directory; a file is the sequence of its lines and a line the    *)
(* sequence of its lexemes, so that the patterns of lines 42 and 59 are    *)
(* tests on them.  A string of several lines is the sequence of those      *)
(* lines, the empty string being one empty line.  A frame of the call      *)
(* stack holds the arguments and locals of one call; the interpreter       *)
(* raises RecursionError when a call would exceed RecursionLimit frames    *)
(* (1000 by default in CPython), and nothing in flatten_markdown catches   *)
(* it.  RecursionLimit exceeds the number of files, so that only files     *)
(* that embed each other in a cycle reach it.                              *)
(***************************************************************************)
MaxLines == 2

RecursionLimit == 3

Stems == {"a", "b"}

embed(stem) == <<"![](", stem, ".md", ")">>

LineChoices ==
    {<<"x">>, <<"---">>, <<"![](", "p", ".png", ")">>, embed("a"), embed("b"), embed("c")}

RECURSIVE Contents(_)
Contents(n) ==
    IF n = 0 THEN {<<>>}
    ELSE Contents(n - 1)
             \cup {Append(c, l) : c \in {d \in Contents(n - 1) : Len(d) = n - 1},
                                  l \in LineChoices}

\* Line 42: re.match(r'^!\[.*\]\((.*\.md)\)$', line)
embed_match(line) ==
    Len(line) = 4 /\ line[1] = "![](" /\ line[3] = ".md" /\ line[4] = ")"

\* Line 75: '\n'.join(flattened_content)
join(flattened_content) ==
    IF Len(flattened_content) = 0 THEN <<(<<>>)>> ELSE Flatten(flattened_content)

\* Lines 10-21: the frame of a call
frame(filepath, is_root) ==
    [filepath |-> filepath, is_root |-> is_root, i |-> 0, in_frontmatter |-> FALSE,
     flattened_content |-> <<>>]

InitFlatten ==
    /\ SegIdle
    /\ GrowIdle
    /\ prs = <<>>
    /\ conv = EmptyDict
    /\ pc = "call"
    /\ ret = <<>>
    /\ \E a \in Contents(MaxLines), b \in Contents(MaxLines), root \in Stems :
           /\ call = [fn |-> "flatten_markdown", files |-> [a |-> a, b |-> b],
                      filepath |-> root]
           /\ stack = <<frame(root, TRUE)>>

\* The running call, its file's lines, and the line its loop is at.
top == stack[Len(stack)]

lines == call.files[top.filepath]

line == lines[top.i + 1]

Running == pc = "call" /\ call.fn = "flatten_markdown" /\ Len(stack) > 0

\* The frame after an iteration that appends what (a list of strings) and goes on.
advanced(f, what, in_frontmatter) ==
    [f EXCEPT !.i = @ + 1, !.in_frontmatter = in_frontmatter,
              !.flattened_content = @ \o what]

\* Lines 24-39: the iteration on a line of the frontmatter.
frontmatter_step(f, l) ==
    IF (f.i = 0 \/ f.in_frontmatter) /\ l = <<"---">>
    THEN advanced(f, IF f.is_root THEN <<(<<l>>)>> ELSE <<>>, f.i = 0)
    ELSE advanced(f, IF f.is_root THEN <<(<<l>>)>> ELSE <<>>, TRUE)

in_frontmatter_line(f, l) == f.in_frontmatter \/ (f.i = 0 /\ l = <<"---">>)

\* Lines 42-48: the line is outside the frontmatter, matches the pattern of an
\* embedded markdown file, and the file exists.
embeds_file(f, l) ==
    IF in_frontmatter_line(f, l) \/ ~embed_match(l) THEN FALSE
    ELSE l[2] \in DOMAIN call.files

\* Line 56: the comment left in place of a file there is not.
not_found(l) == <<"<!-- Embedded file not found: ", l[2], l[3], " -->">>

flatvars == <<segvars, call, shapes, shapes_no_title, grow_i, grow_log, prs, conv>>

\* Lines 22-39 and 55-73: an iteration that makes no call.
Line ==
    /\ Running
    /\ top.i < Len(lines)
    /\ ~embeds_file(top, line)
    /\ stack' = [stack EXCEPT ![Len(stack)] =
                    IF in_frontmatter_line(top, line) THEN frontmatter_step(top, line)
                    ELSE IF embed_match(line)
                    THEN advanced(top, <<(<<not_found(line)>>)>>, FALSE)
                    ELSE advanced(top, <<(<<line>>)>>, FALSE)]
    /\ UNCHANGED <<flatvars, ret, pc>>

\* The iteration is at a line that embeds a file there is.
AtEmbed ==
    /\ Running
    /\ top.i < Len(lines)
    /\ embeds_file(top, line)

\* Lines 50-53: the recursive call.
Embed ==
    /\ AtEmbed
    /\ Len(stack) < RecursionLimit
    /\ stack' = Append(stack, frame(line[2], FALSE))
    /\ UNCHANGED <<flatvars, ret, pc>>

\* The recursive call exceeds the interpreter's limit: RecursionError leaves
\* every frame of flatten_markdown and reaches main's except clause.
Overflow ==
    /\ AtEmbed
    /\ Len(stack) = RecursionLimit
    /\ stack' = <<>>
    /\ pc' = "error"
    /\ UNCHANGED <<flatvars, ret>>

\* Line 75, and line 54 in the caller.
ReturnContent ==
    /\ Running
    /\ top.i = Len(lines)
    /\ IF Len(stack) = 1
       THEN /\ stack' = <<>>
            /\ ret' = Append(ret, join(top.flattened_content))
            /\ pc' = "returned"
       ELSE /\ stack' = [k \in 1..(Len(stack) - 1) |->
                            IF k = Len(stack) - 1
                            THEN advanced(stack[k], <<join(top.flattened_content)>>, FALSE)
                            ELSE stack[k]]
            /\ UNCHANGED <<ret, pc>>
    /\ UNCHANGED flatvars

NextFlatten == Line \/ Embed \/ Overflow \/ ReturnContent

\* The interpreter keeps running the call while it has a step to take.
SpecFlatten == InitFlatten /\ [][NextFlatten]_vars /\ WF_vars(NextFlatten)

\* C30: the call of flatten_markdown eventually returns.
C30_Returns == <>(pc = "returned")

====
